---- MODULE Spec2Model ----
(***************************************************************************)
(* A model of the CHIP-8 virtual machine of src/src/chip8.rs: the VM       *)
(* struct, its public operations new / load / cycle / key, the opcode      *)
(* dispatch of VM::op and the Framebuffer.                                 *)
(*                                                                         *)
(* A Rust panic ends the process: the model records it in `panic` and      *)
(* takes no further step.  Integer overflow panics in a build with         *)
(* overflow checks (debug profile) and wraps in one without (release       *)
(* profile); `overflow_checks` is chosen once, in Init.                    *)
(***************************************************************************)
EXTENDS Integers, Naturals, Sequences, FiniteSets, TLC

VARIABLES
    memory,           \* [u8; 4096], held as the map of its bytes that are not 0
    stack,            \* [u16; 16]
    stack_pointer,    \* u8
    program_counter,  \* u16
    registers,        \* [u8; 16]
    index_register,   \* u16
    framebuffer,      \* Framebuffer.buffer: row -> set of the bits that are 1
    delay_timer,      \* u8
    sound_timer,      \* u8
    keyboard,         \* [bool; 16]
    panic,            \* "none", or the message of the panic that ended the process
    overflow_checks,  \* the build profile: TRUE = arithmetic overflow panics
    host,             \* the host's position: "new" (before load) or "run"
    last,             \* history: the last operation called and its arguments
    calls,            \* history: the CALLs not yet returned from, oldest first
    key_calls         \* history: the number of calls of key() so far

vmvars == <<memory, stack, stack_pointer, program_counter, registers,
            index_register, framebuffer, delay_timer, sound_timer, keyboard>>

vars == <<memory, stack, stack_pointer, program_counter, registers,
          index_register, framebuffer, delay_timer, sound_timer, keyboard,
          panic, overflow_checks, host, last, calls, key_calls>>

----------------------------------------------------------------------------
(* Sizes fixed by the source.                                              *)

MemorySize == 4096
StackSize == 16
NumRegisters == 16
NumKeys == 16
RomSize == 3584
LoadStart == 512
LoadEnd == 4095
ProgramStart == 512
FbRows == 32
FbBits == 64
KeyLimit == 15
RngHigh == 255
FontBase == 80
FlagRegister == 15

(* Bounds of the model.                                                    *)

MaxKeyCalls == 1
MaxKey == 16
FbMaxX == 1
FbMaxY == 1

U8 == 256
U16 == 65536

----------------------------------------------------------------------------
(* Bit operations on unsigned integers.                                    *)

RECURSIVE BitAnd(_, _)
BitAnd(a, b) ==
    IF a = 0 \/ b = 0 THEN 0
    ELSE (a % 2) * (b % 2) + 2 * BitAnd(a \div 2, b \div 2)

RECURSIVE BitOr(_, _)
BitOr(a, b) ==
    IF a = 0 THEN b
    ELSE IF b = 0 THEN a
    ELSE (IF a % 2 = 1 \/ b % 2 = 1 THEN 1 ELSE 0) + 2 * BitOr(a \div 2, b \div 2)

RECURSIVE BitXor(_, _)
BitXor(a, b) ==
    IF a = 0 THEN b
    ELSE IF b = 0 THEN a
    ELSE ((a + b) % 2) + 2 * BitXor(a \div 2, b \div 2)

RECURSIVE Pow2(_)
Pow2(n) == IF n = 0 THEN 1 ELSE 2 * Pow2(n - 1)

Shr(a, n) == a \div Pow2(n)

BoolToInt(b) == IF b THEN 1 ELSE 0

----------------------------------------------------------------------------
(* The VM as a value: the fields of struct VM, and the panic that ended    *)
(* the call, if any.                                                       *)

Self ==
    [memory |-> memory, stack |-> stack, stack_pointer |-> stack_pointer,
     program_counter |-> program_counter, registers |-> registers,
     index_register |-> index_register, framebuffer |-> framebuffer,
     delay_timer |-> delay_timer, sound_timer |-> sound_timer,
     keyboard |-> keyboard, panic |-> "none"]

Panic(vm, message) == [vm EXCEPT !.panic = message]

FramebufferNew == [y \in 0..(FbRows - 1) |-> {}]

\* self.memory[a], for a in 0..4095
MemGet(mem, a) == IF a \in DOMAIN mem THEN mem[a] ELSE 0

\* self.memory[a] = v, for a in 0..4095
MemPut(mem, a, v) ==
    [b \in (DOMAIN mem \ {a}) \cup (IF v # 0 THEN {a} ELSE {}) |->
        IF b = a THEN v ELSE mem[b]]

New ==
    [memory |-> [a \in {} |-> 0],
     stack |-> [s \in 0..(StackSize - 1) |-> 0],
     stack_pointer |-> 0,
     program_counter |-> ProgramStart,
     registers |-> [r \in 0..(NumRegisters - 1) |-> 0],
     index_register |-> 0,
     framebuffer |-> FramebufferNew,
     delay_timer |-> 0,
     sound_timer |-> 0,
     keyboard |-> [k \in 0..(NumKeys - 1) |-> FALSE],
     panic |-> "none"]

----------------------------------------------------------------------------
(* Framebuffer                                                             *)

FramebufferClear == FramebufferNew

FramebufferGet(fb, x, y) == x \in fb[y]

\* The buffer after set(x, y, state): the row ORed with (state << x).
FramebufferSetBuffer(fb, x, y, state) ==
    [fb EXCEPT ![y] = fb[y] \cup (IF state THEN {x} ELSE {})]

\* The value set(x, y, state) returns.
FramebufferSetCollision(fb, x, y, state) ==
    IF FramebufferGet(fb, x, y) THEN TRUE ELSE FALSE

----------------------------------------------------------------------------
(* VM::load and VM::key                                                    *)

\* rom[i], for i in 0..3583; a ROM is held like the memory, as the map of its
\* bytes that are not 0
RomGet(rom, i) == IF i \in DOMAIN rom THEN rom[i] ELSE 0

\* for (i, value) in self.memory[512..4095].iter_mut().enumerate() { *value = rom[i] }
\* The bytes of memory[512..4095] become those of the ROM, the others are kept.
load(vm, rom) ==
    LET kept == {a \in DOMAIN vm.memory : a < LoadStart \/ a >= LoadEnd}
        copied == {LoadStart + i : i \in {j \in DOMAIN rom : LoadStart + j < LoadEnd}}
    IN  [vm EXCEPT !.memory =
            [a \in kept \cup copied |->
                IF a \in copied THEN rom[a - LoadStart] ELSE vm.memory[a]]]

key(vm, k, state) ==
    IF k >= KeyLimit THEN Panic(vm, "Illegal key")
    ELSE [vm EXCEPT !.keyboard[k] = state]

----------------------------------------------------------------------------
(* VM::read_instruction and the opcode's fields                            *)

ReadPanics(vm) == vm.program_counter + 1 >= MemorySize

read_instruction(vm) ==
    MemGet(vm.memory, vm.program_counter) * 256
        + MemGet(vm.memory, vm.program_counter + 1)

Parts(opcode) ==
    <<opcode \div 4096, (opcode \div 256) % 16, (opcode \div 16) % 16, opcode % 16>>

Nnn(opcode) == opcode % 4096
Vx(opcode) == (opcode \div 256) % 16
Vy(opcode) == (opcode \div 16) % 16
Byte(opcode) == opcode % 256

SetReg(vm, r, v) == [vm EXCEPT !.registers[r] = v]

----------------------------------------------------------------------------
(* The arms of the match in VM::op, in the order of the source.            *)

OpCls(vm) == [vm EXCEPT !.framebuffer = FramebufferClear]

\* self.stack_pointer -= 1 overflows at 0: a panic with overflow checks, 255
\* without, and then the index is out of bounds.
OpRet(vm, checks) ==
    IF vm.stack_pointer = 0
    THEN IF checks THEN Panic(vm, "attempt to subtract with overflow")
         ELSE Panic(vm, "stack index out of bounds")
    ELSE [vm EXCEPT !.stack_pointer = vm.stack_pointer - 1,
                    !.program_counter = vm.stack[vm.stack_pointer - 1]]

OpAnd0(vm, x, y) == SetReg(vm, x, BitAnd(vm.registers[x], vm.registers[y]))

OpSys(vm) == vm

OpJp(vm, nnn) == [vm EXCEPT !.program_counter = nnn]

OpCall(vm, nnn) ==
    IF vm.stack_pointer + 1 >= StackSize
    THEN Panic(vm, "stack index out of bounds")
    ELSE [vm EXCEPT !.stack_pointer = vm.stack_pointer + 1,
                    !.stack[vm.stack_pointer + 1] = vm.program_counter,
                    !.program_counter = nnn]

Skip(vm, cond) ==
    IF cond THEN [vm EXCEPT !.program_counter = vm.program_counter + 2] ELSE vm

OpSeByte(vm, x, byte) == Skip(vm, vm.registers[x] = byte)
OpSneByte(vm, x, byte) == Skip(vm, vm.registers[x] # byte)
OpSeReg(vm, x, y) == Skip(vm, vm.registers[x] = vm.registers[y])
OpLdByte(vm, x, byte) == SetReg(vm, x, byte)

OpAddByte(vm, x, byte, checks) ==
    IF vm.registers[x] + byte >= U8 /\ checks
    THEN Panic(vm, "attempt to add with overflow")
    ELSE SetReg(vm, x, (vm.registers[x] + byte) % U8)

OpLdReg(vm, x, y) == SetReg(vm, x, vm.registers[y])
OpOr(vm, x, y) == SetReg(vm, x, BitOr(vm.registers[x], vm.registers[y]))
OpXor(vm, x, y) == SetReg(vm, x, BitXor(vm.registers[x], vm.registers[y]))

OpAddReg(vm, x, y) ==
    LET sum == vm.registers[x] + vm.registers[y]
        flagged == SetReg(vm, FlagRegister, BoolToInt(sum > 255))
    IN  SetReg(flagged, x, sum % U8)

\* The flag is stored first; the subtraction reads the registers after that.
OpSub(vm, x, y, checks) ==
    LET flagged == SetReg(vm, FlagRegister,
                          BoolToInt(vm.registers[x] > vm.registers[y]))
        a == flagged.registers[x]
        b == flagged.registers[y]
    IN  IF a < b /\ checks THEN Panic(vm, "attempt to subtract with overflow")
        ELSE SetReg(flagged, x, (a - b) % U8)

OpShr(vm, x) ==
    LET flagged == SetReg(vm, FlagRegister, vm.registers[x] % 2)
    IN  SetReg(flagged, x, flagged.registers[x] \div 2)

OpSubn(vm, x, y, checks) ==
    LET flagged == SetReg(vm, FlagRegister,
                          BoolToInt(vm.registers[y] > vm.registers[x]))
        a == flagged.registers[y]
        b == flagged.registers[x]
    IN  IF a < b /\ checks THEN Panic(vm, "attempt to subtract with overflow")
        ELSE SetReg(flagged, x, (a - b) % U8)

OpShl(vm, x) ==
    LET flagged == SetReg(vm, FlagRegister, vm.registers[x] \div 128)
    IN  SetReg(flagged, x, (flagged.registers[x] * 2) % U8)

OpSneReg(vm, x, y) == Skip(vm, vm.registers[x] # vm.registers[y])
OpLdI(vm, nnn) == [vm EXCEPT !.index_register = nnn]
OpJpV0(vm, nnn) == [vm EXCEPT !.program_counter = vm.registers[0] + nnn]

\* rnd is the value of self.rng.gen_range(0, 255)
OpRnd(vm, x, byte, rnd) == SetReg(vm, x, BitAnd(rnd, byte))

\* One iteration of the inner loop of DRW, for the pixel (x, y) of the loops:
\* the sprite bit read, then framebuffer.set.  acc = [vm, collision].
DrwPixel(acc, x, y, checks) ==
    LET vm == acc.vm
        sum == vm.index_register + y
        addr == sum % U16
        shift == x % 8
        pixel == (Shr(128, shift) = BitAnd(MemGet(vm.memory, addr), Shr(128, shift)))
    IN  IF sum >= U16 /\ checks
        THEN [acc EXCEPT !.vm = Panic(vm, "attempt to add with overflow")]
        ELSE IF addr >= MemorySize
        THEN [acc EXCEPT !.vm = Panic(vm, "memory index out of bounds")]
        ELSE IF x >= 8 /\ checks
        THEN [acc EXCEPT !.vm = Panic(vm, "attempt to shift right with overflow")]
        ELSE [vm |-> [vm EXCEPT !.framebuffer =
                         FramebufferSetBuffer(vm.framebuffer, x, y, pixel)],
              collision |-> acc.collision
                  \/ FramebufferSetCollision(vm.framebuffer, x, y, pixel)]

\* The loops of DRW from their k-th iteration on: x is the outer loop, from
\* x_start to x_start + 7, y the inner one, from y_start to y_start + height - 1.
RECURSIVE DrwLoop(_, _, _, _, _, _)
DrwLoop(acc, k, x_start, y_start, height, checks) ==
    IF k >= 8 * height \/ acc.vm.panic # "none" THEN acc
    ELSE DrwLoop(DrwPixel(acc, x_start + (k \div height), y_start + (k % height), checks),
                 k + 1, x_start, y_start, height, checks)

\* x_start and y_start are computed from the register numbers vx and vy.
OpDrw(vm, x, y, height, checks) ==
    LET x_start == x % FbBits
        y_start == y % FbRows
        done == DrwLoop([vm |-> vm, collision |-> FALSE], 0, x_start, y_start,
                        height, checks)
    IN  IF done.vm.panic # "none" THEN done.vm
        ELSE SetReg(done.vm, FlagRegister, BoolToInt(done.collision))

OpSkp(vm, x) ==
    IF vm.registers[x] >= NumKeys THEN Panic(vm, "keyboard index out of bounds")
    ELSE Skip(vm, vm.keyboard[vm.registers[x]])

OpSknp(vm, x) ==
    IF vm.registers[x] >= NumKeys THEN Panic(vm, "keyboard index out of bounds")
    ELSE Skip(vm, ~vm.keyboard[vm.registers[x]])

\* LD Vx, DT as it would be if reading the delay timer also ticked it
OpLdVxDt_Ticks(vm, x) ==
    SetReg([vm EXCEPT !.delay_timer = IF @ > 0 THEN @ - 1 ELSE 0], x, vm.delay_timer)

OpLdVxDt(vm, x) == SetReg(vm, x, vm.delay_timer)

PressedKeys(vm) == {k \in 0..(NumKeys - 1) : vm.keyboard[k]}

FirstPressed(vm) == CHOOSE k \in PressedKeys(vm) : \A j \in PressedKeys(vm) : k <= j

\* A key-wait that does not rewind the program counter.
OpLdVxK_NoRewind(vm, x) ==
    IF PressedKeys(vm) # {} THEN SetReg(vm, x, FirstPressed(vm))
    ELSE vm

OpLdVxK(vm, x) ==
    IF PressedKeys(vm) # {} THEN SetReg(vm, x, FirstPressed(vm))
    ELSE [vm EXCEPT !.program_counter = vm.program_counter - 2]

OpLdDtVx(vm, x) == [vm EXCEPT !.delay_timer = vm.registers[x]]
OpLdStVx(vm, x) == [vm EXCEPT !.sound_timer = vm.registers[x]]

OpAddIVx(vm, x, checks) ==
    IF vm.index_register + vm.registers[x] >= U16 /\ checks
    THEN Panic(vm, "attempt to add with overflow")
    ELSE [vm EXCEPT !.index_register = (vm.index_register + vm.registers[x]) % U16]

\* (0x50 + (5 * digit)) as u16, computed in u8
OpLdFVx(vm, x, checks) ==
    LET digit == vm.registers[x]
    IN  IF 5 * digit >= U8 /\ checks
        THEN Panic(vm, "attempt to multiply with overflow")
        ELSE IF FontBase + ((5 * digit) % U8) >= U8 /\ checks
        THEN Panic(vm, "attempt to add with overflow")
        ELSE [vm EXCEPT !.index_register = (FontBase + ((5 * digit) % U8)) % U8]

OpLdBVx(vm, x) ==
    LET val == vm.registers[x]
        index == vm.index_register
    IN  IF index + 2 >= MemorySize THEN Panic(vm, "memory index out of bounds")
        ELSE [vm EXCEPT !.memory =
                MemPut(MemPut(MemPut(vm.memory, index + 2, val % 10),
                              index + 1, (val \div 10) % 10),
                       index, ((val \div 10) \div 10) % 10)]

\* The loop of LD [I], Vx from its iteration i on.
RECURSIVE StoreRegisters(_, _, _, _, _)
StoreRegisters(mem, regs, index, i, x) ==
    IF i >= x THEN mem
    ELSE StoreRegisters(MemPut(mem, index + i, regs[i]), regs, index, i + 1, x)

\* for i in 0..vx: the registers below Vx
OpLdIVx(vm, x) ==
    IF x > 0 /\ vm.index_register + (x - 1) >= MemorySize
    THEN Panic(vm, "memory index out of bounds")
    ELSE [vm EXCEPT !.memory = StoreRegisters(vm.memory, vm.registers,
                                              vm.index_register, 0, x)]

\* LD Vx, [I] as it would be if it stored the registers instead of loading them
OpLdVxI_Stores(vm, x) == OpLdIVx(vm, x)

OpLdVxI(vm, x) ==
    IF x > 0 /\ vm.index_register + (x - 1) >= MemorySize
    THEN Panic(vm, "memory index out of bounds")
    ELSE [vm EXCEPT !.registers =
            [r \in 0..(NumRegisters - 1) |->
                IF r < x THEN MemGet(vm.memory, vm.index_register + r)
                ELSE vm.registers[r]]]

OpUnknown(vm) == vm

----------------------------------------------------------------------------
(* VM::op: the match over the opcode's nibbles; the first arm that matches *)
(* is taken.                                                               *)

op(vm, opcode, checks, rnd) ==
    LET parts == Parts(opcode)
        nnn == Nnn(opcode)
        x == Vx(opcode)
        y == Vy(opcode)
        byte == Byte(opcode)
        p1 == parts[1]
        p2 == parts[2]
        p3 == parts[3]
        p4 == parts[4]
    IN  CASE p1 = 0 /\ p2 = 0 /\ p3 = 14 /\ p4 = 0 -> OpCls(vm)
          [] p1 = 0 /\ p2 = 0 /\ p3 = 14 /\ p4 = 14 -> OpRet(vm, checks)
          [] p1 = 0 /\ p4 = 2 -> OpAnd0(vm, x, y)
          [] p1 = 0 /\ p4 # 2 /\ ~(p2 = 0 /\ p3 = 14 /\ p4 \in {0, 14}) -> OpSys(vm)
          [] p1 = 1 -> OpJp(vm, nnn)
          [] p1 = 2 -> OpCall(vm, nnn)
          [] p1 = 3 -> OpSeByte(vm, x, byte)
          [] p1 = 4 -> OpSneByte(vm, x, byte)
          [] p1 = 5 -> OpSeReg(vm, x, y)
          [] p1 = 6 -> OpLdByte(vm, x, byte)
          [] p1 = 7 -> OpAddByte(vm, x, byte, checks)
          [] p1 = 8 /\ p4 = 0 -> OpLdReg(vm, x, y)
          [] p1 = 8 /\ p4 = 1 -> OpOr(vm, x, y)
          [] p1 = 8 /\ p4 = 3 -> OpXor(vm, x, y)
          [] p1 = 8 /\ p4 = 4 -> OpAddReg(vm, x, y)
          [] p1 = 8 /\ p4 = 5 -> OpSub(vm, x, y, checks)
          [] p1 = 8 /\ p4 = 6 -> OpShr(vm, x)
          [] p1 = 8 /\ p4 = 7 -> OpSubn(vm, x, y, checks)
          [] p1 = 8 /\ p4 = 8 -> OpShl(vm, x)
          [] p1 = 9 /\ p4 = 0 -> OpSneReg(vm, x, y)
          [] p1 = 10 -> OpLdI(vm, nnn)
          [] p1 = 11 -> OpJpV0(vm, nnn)
          [] p1 = 12 -> OpRnd(vm, x, byte, rnd)
          [] p1 = 13 -> OpDrw(vm, x, y, p4, checks)
          [] p1 = 14 /\ p3 = 9 /\ p4 = 14 -> OpSkp(vm, x)
          [] p1 = 14 /\ p3 = 10 /\ p4 = 1 -> OpSknp(vm, x)
          [] p1 = 15 /\ p3 = 0 /\ p4 = 7 -> OpLdVxDt(vm, x)
          [] p1 = 15 /\ p3 = 0 /\ p4 = 10 -> OpLdVxK(vm, x)
          [] p1 = 15 /\ p3 = 1 /\ p4 = 5 -> OpLdDtVx(vm, x)
          [] p1 = 15 /\ p3 = 1 /\ p4 = 8 -> OpLdStVx(vm, x)
          [] p1 = 15 /\ p3 = 1 /\ p4 = 14 -> OpAddIVx(vm, x, checks)
          [] p1 = 15 /\ p3 = 2 /\ p4 = 9 -> OpLdFVx(vm, x, checks)
          [] p1 = 15 /\ p3 = 3 /\ p4 = 3 -> OpLdBVx(vm, x)
          [] p1 = 15 /\ p3 = 5 /\ p4 = 5 -> OpLdIVx(vm, x)
          [] p1 = 15 /\ p3 = 6 /\ p4 = 5 -> OpLdVxI(vm, x)
          [] OTHER -> OpUnknown(vm)

\* VM::cycle: fetch, advance the program counter by 2, execute.
cycle(vm, checks, rnd) ==
    IF ReadPanics(vm) THEN Panic(vm, "memory index out of bounds")
    ELSE op([vm EXCEPT !.program_counter = vm.program_counter + 2],
            read_instruction(vm), checks, rnd)

----------------------------------------------------------------------------
(* ROM images.  The host (src/src/main.rs) reads a file into a             *)
(* [u8; 3584] that starts zeroed; a ROM here is its leading 16-bit words,  *)
(* its last byte, and zeros between, held as the map of its bytes that     *)
(* are not 0.                                                              *)

\* Byte i of the big-endian words
WordByte(words, i) ==
    IF i % 2 = 0 THEN words[(i \div 2) + 1] \div 256 ELSE words[(i \div 2) + 1] % 256

Rom(words, tail) ==
    [i \in {j \in 0..(2 * Len(words) - 1) : WordByte(words, j) # 0}
            \cup (IF tail # 0 THEN {RomSize - 1} ELSE {}) |->
        IF i < 2 * Len(words) THEN WordByte(words, i) ELSE tail]

\* CALL 0x200 at 0x200: CALLs nested until the stack overflows
RomCallSelf == Rom(<<\H2200>>, 0)

\* 0x200 CALL 0x204; 0x202 JP 0x202; 0x204 CALL 0x208; 0x206 JP 0x206; 0x208 RET
RomCallRet == Rom(<<\H2204, \H1202, \H2208, \H1206, \H00EE>>, 0)

\* RET on the empty stack
RomRet == Rom(<<\H00EE>>, 0)

\* LD V0, 16; SKP V0; then SKNP V0
RomSkp == Rom(<<\H6010, \HE09E, \HE0A1>>, 0)

\* 0x200 LD V1, 14; SKP V1; SKNP V1; 0x206 JP 0x206; 0x208 JP 0x208: the key
\* opcodes on a key of the keyboard
RomSkpKey == Rom(<<\H610E, \HE19E, \HE1A1, \H1206, \H1208>>, 0)

\* 0x200 LD I, 0x20C; DRW V0, V0, 1; DRW V0, V0, 1; LD I, 0x20E; DRW V0, V0, 1;
\* 0x20A JP 0x20A; 0x20C the sprite 0x80, 0x20E zeros
RomDrawTwice == Rom(<<\HA20C, \HD001, \HD001, \HA20E, \HD001, \H120A, \H8000>>, 0)

\* LD V0, 60; LD V1, 2; LD I, 0x20A; DRW V0, V1, 2; JP 0x208; sprite C3 FF FF 00
RomDrawWrap == Rom(<<\H603C, \H6102, \HA20A, \HD012, \H1208, \HC3FF, \HFF00>>, 0)

\* LD I, 0x206; DRW V1, V0, 1; JP 0x204; sprite FF
RomDrawShift == Rom(<<\HA206, \HD101, \H1204, \HFF00>>, 0)

\* 0x200 LD V3, 7; LD DT, V3; LD ST, V3; CALL 0x20A; 0x208 JP 0x208;
\* 0x20A LD VA, K; CLS; 0x20E JP 0x20E: a key-wait inside a subroutine
RomKeyWait ==
    Rom(<<\H6307, \HF315, \HF318, \H220A, \H1208, \HFA0A, \H00E0, \H120E>>, 0)

\* JP 0xFFE, and a last byte that is not zero: the opcode at 0xFFE, then the end
\* of memory
RomLastByte == Rom(<<\H1FFE>>, 1)

\* LD V0, 200; LD V1, 100; ADD V0, V1; LD VF, 1; ADD VF, V0; ADD V0, VF;
\* 0x20C JP 0x20C
RomAdd == Rom(<<\H60C8, \H6164, \H8014, \H6F01, \H8F04, \H80F4, \H120C>>, 0)

\* LD V0, 5; LD V1, 3; SUB V0, V1; LD V0, 1; LD V1, 2; SUB V0, V1; 0x20C JP 0x20C
RomSub == Rom(<<\H6005, \H6103, \H8015, \H6001, \H6102, \H8015, \H120C>>, 0)

\* LD V0, 0x11; LD V1, 0x22; LD V2, 0x33; LD I, 0x300; LD [I], V1; LD [I], V0;
\* LD V0, 0; LD V1, 0; LD V1, [I]; LD B, V2; 0x214 JP 0x214
RomStore ==
    Rom(<<\H6011, \H6122, \H6233, \HA300, \HF155, \HF055, \H6000, \H6100,
          \HF165, \HF233, \H1214>>, 0)

\* LD V0, 3; LD V1, 5; then 9011, 8019, E000, F000, 8012, 0012, 5001, a word
\* of zeros that 5001 skips; 0x214 JP 0x214
RomUnknown ==
    Rom(<<\H6003, \H6105, \H9011, \H8019, \HE000, \HF000, \H8012, \H0012,
          \H5001, \H0000, \H1214>>, 0)

\* LD V3, 7; LD DT, V3; LD V4, 9; LD ST, V4; LD V5, DT; 0x20A JP 0x20A
RomTimers == Rom(<<\H6307, \HF315, \H6409, \HF418, \HF507, \H120A>>, 0)

\* LD V0, 5; ADD V0, 3; LD V0, 0xFF; ADD V0, 2; 0x208 JP 0x208
RomAddByte == Rom(<<\H6005, \H7003, \H60FF, \H7002, \H1208>>, 0)

\* 0x200 RND V0, 0xFF; 0x202 JP 0x202
RomRnd == Rom(<<\HC0FF, \H1202>>, 0)

Roms ==
    <<RomCallSelf, RomCallRet, RomRet, RomSkp, RomSkpKey, RomDrawTwice,
      RomDrawWrap, RomDrawShift, RomKeyWait, RomLastByte, RomAdd, RomSub,
      RomStore, RomUnknown, RomRnd, RomTimers, RomAddByte>>

----------------------------------------------------------------------------
(* The state machine: the host constructs the VM, loads a ROM, then calls  *)
(* cycle() repeatedly; it may call key() at any time.                      *)

LastCall(call, opcode, rom, k, state) ==
    [call |-> call, opcode |-> opcode, rom |-> rom, key |-> k, state |-> state,
     x |-> 0, y |-> 0, ret |-> FALSE]

\* The history of CALLs after the opcode ran on vm and gave r.
CallsAfter(vm, opcode, r) ==
    IF r.panic # "none" THEN calls
    ELSE IF opcode \div 4096 = 2
    THEN Append(calls, [ret |-> vm.program_counter + 2, sp |-> vm.stack_pointer])
    ELSE IF opcode = \H00EE /\ calls # <<>>
    THEN SubSeq(calls, 1, Len(calls) - 1)
    ELSE calls

\* The VM's fields after a call that gave r; a call that panics leaves them as
\* they were and records the panic.
Commit(r) ==
    /\ panic' = r.panic
    /\ IF r.panic # "none" THEN UNCHANGED vmvars
       ELSE /\ memory' = r.memory
            /\ stack' = r.stack
            /\ stack_pointer' = r.stack_pointer
            /\ program_counter' = r.program_counter
            /\ registers' = r.registers
            /\ index_register' = r.index_register
            /\ framebuffer' = r.framebuffer
            /\ delay_timer' = r.delay_timer
            /\ sound_timer' = r.sound_timer
            /\ keyboard' = r.keyboard

InitVm ==
    /\ memory = New.memory
    /\ stack = New.stack
    /\ stack_pointer = New.stack_pointer
    /\ program_counter = New.program_counter
    /\ registers = New.registers
    /\ index_register = New.index_register
    /\ framebuffer = New.framebuffer
    /\ delay_timer = New.delay_timer
    /\ sound_timer = New.sound_timer
    /\ keyboard = New.keyboard
    /\ panic = "none"

Init ==
    /\ InitVm
    /\ overflow_checks \in BOOLEAN
    /\ host = "new"
    /\ last = LastCall("new", 0, 0, 0, FALSE)
    /\ calls = <<>>
    /\ key_calls = 0

Load ==
    /\ panic = "none"
    /\ host = "new"
    /\ \E n \in 1..Len(Roms) :
        /\ Commit(load(Self, Roms[n]))
        /\ last' = LastCall("load", 0, n, 0, FALSE)
    /\ host' = "run"
    /\ UNCHANGED <<overflow_checks, calls, key_calls>>

\* The values gen_range(0, 255) can give; only RND draws one.
RandomValues(opcode) == IF opcode \div 4096 = 12 THEN 0..(RngHigh - 1) ELSE {0}

Cycle ==
    /\ panic = "none"
    /\ host = "run"
    /\ LET opcode == IF ReadPanics(Self) THEN 0 ELSE read_instruction(Self)
       IN  \E rnd \in RandomValues(opcode) :
            LET r == cycle(Self, overflow_checks, rnd)
            IN  /\ Commit(r)
                /\ last' = LastCall("cycle", opcode, 0, 0, FALSE)
                /\ calls' = CallsAfter(Self, opcode, r)
    /\ UNCHANGED <<overflow_checks, host, key_calls>>

Key ==
    /\ panic = "none"
    /\ key_calls < MaxKeyCalls
    /\ \E k \in 0..MaxKey, state \in BOOLEAN :
        /\ Commit(key(Self, k, state))
        /\ last' = LastCall("key", 0, 0, k, state)
    /\ key_calls' = key_calls + 1
    /\ UNCHANGED <<overflow_checks, host, calls>>

Next == Load \/ Cycle \/ Key

Spec == Init /\ [][Next]_vars

----------------------------------------------------------------------------
(* The Framebuffer alone: its operations applied, one call per step, to    *)
(* the cells (0..FbMaxX, 0..FbMaxY) of a framebuffer that starts empty.    *)

InitFb ==
    /\ InitVm
    /\ overflow_checks = FALSE
    /\ host = "framebuffer"
    /\ last = LastCall("new", 0, 0, 0, FALSE)
    /\ calls = <<>>
    /\ key_calls = 0

FbSet ==
    /\ \E x \in 0..FbMaxX, y \in 0..FbMaxY, state \in BOOLEAN :
        /\ framebuffer' = FramebufferSetBuffer(framebuffer, x, y, state)
        /\ last' = [LastCall("set", 0, 0, 0, state) EXCEPT
                        !.x = x, !.y = y,
                        !.ret = FramebufferSetCollision(framebuffer, x, y, state)]
    /\ UNCHANGED <<memory, stack, stack_pointer, program_counter, registers,
                   index_register, delay_timer, sound_timer, keyboard, panic,
                   overflow_checks, host, calls, key_calls>>

FbClear ==
    /\ framebuffer' = FramebufferClear
    /\ last' = LastCall("clear", 0, 0, 0, FALSE)
    /\ UNCHANGED <<memory, stack, stack_pointer, program_counter, registers,
                   index_register, delay_timer, sound_timer, keyboard, panic,
                   overflow_checks, host, calls, key_calls>>

NextFb == FbSet \/ FbClear

SpecFb == InitFb /\ [][NextFb]_vars

----------------------------------------------------------------------------
(* Claims                                                                  *)

IsCall(opcode) == opcode \div 4096 = 2
IsRet(opcode) == opcode = \H00EE
IsDrw(opcode) == opcode \div 4096 = 13
IsKeyWait(opcode) == opcode \div 4096 = 15 /\ opcode % 256 = \H0A

\* C1: a RET that completes returns to the instruction after the most recent
\* CALL not yet returned from, and restores the stack pointer to its value
\* before that CALL.
C1_CallRetRoundTrip ==
    [][(last'.call = "cycle" /\ IsRet(last'.opcode) /\ panic' = "none"
            /\ calls # <<>>)
        => /\ program_counter' = calls[Len(calls)].ret
           /\ stack_pointer' = calls[Len(calls)].sp]_vars

\* C2: the stack pointer of a running VM is in 0..16, and a CALL is fatal only
\* when 16 return addresses are already stacked (so 16 nested CALLs complete).
C2_StackHolds16 ==
    /\ panic = "none" => stack_pointer \in 0..16
    /\ (last.call = "cycle" /\ IsCall(last.opcode) /\ panic # "none")
        => Len(calls) = 16

\* C3: a cycle is fatal only on stack overflow or underflow: a cycle that ends
\* in a panic executed CALL, or RET with an empty stack.  (Every fatal CALL is
\* counted as an overflow here, whatever the stack's depth.)
C3_OnlyStackFaults ==
    (last.call = "cycle" /\ panic # "none")
        => \/ (~ReadPanics(Self) /\ IsCall(last.opcode))
           \/ (~ReadPanics(Self) /\ IsRet(last.opcode) /\ stack_pointer = 0)

\* C4: key(k, state) with k in 0..15 sets keyboard[k] to state and changes
\* nothing else; with k >= 16 it is a fatal error.
C4_KeyAcceptsAll16 ==
    [][last'.call = "key"
        => IF last'.key <= 15
           THEN /\ panic' = "none"
                /\ keyboard' = [keyboard EXCEPT ![last'.key] = last'.state]
                /\ UNCHANGED <<memory, stack, stack_pointer, program_counter,
                               registers, index_register, framebuffer,
                               delay_timer, sound_timer>>
           ELSE panic' # "none"]_vars

\* C5: load copies all 3584 bytes of the ROM to memory[0x200..0xFFF] and
\* changes nothing else.
C5_LoadCopiesWholeRom ==
    [][last'.call = "load"
        => /\ \A i \in 0..3583 : MemGet(memory', 512 + i) = RomGet(Roms[last'.rom], i)
           /\ \A a \in 0..511 : MemGet(memory', a) = MemGet(memory, a)
           /\ panic' = "none"
           /\ UNCHANGED <<stack, stack_pointer, program_counter, registers,
                          index_register, framebuffer, delay_timer, sound_timer,
                          keyboard>>]_vars

\* C6: set(x, y, true) on a cell that is off returns false and leaves it on; on
\* a cell that is on it returns true and leaves it off; no other cell changes.
C6_SetXorsTheCell ==
    [][(last'.call = "set" /\ last'.state)
        => LET x == last'.x
               y == last'.y
           IN  /\ ~FramebufferGet(framebuffer, x, y)
                    => (~last'.ret /\ FramebufferGet(framebuffer', x, y))
               /\ FramebufferGet(framebuffer, x, y)
                    => (last'.ret /\ ~FramebufferGet(framebuffer', x, y))
               /\ \A v \in 0..(FbRows - 1), u \in 0..(FbBits - 1) :
                    (u # x \/ v # y)
                        => (FramebufferGet(framebuffer', u, v)
                                <=> FramebufferGet(framebuffer, u, v))]_vars

\* C7: set(x, y, state) returns (the pixel before the call) AND state; a
\* set(x, y, false) on a cell that is on returns false and leaves it on.
C7_SetReturnsPreAndState ==
    [][last'.call = "set"
        => /\ last'.ret
                <=> (FramebufferGet(framebuffer, last'.x, last'.y) /\ last'.state)
           /\ (~last'.state /\ FramebufferGet(framebuffer, last'.x, last'.y))
                => FramebufferGet(framebuffer', last'.x, last'.y)]_vars

\* The sprite of Dxyn as the claims describe it: bit (7 - c) of memory[I + r] is
\* the sprite's pixel in row r and column c, and it lands on the screen cell
\* ((Vx + c) mod 64, (Vy + r) mod 32).
SpriteBit(mem, i, r, c) == (MemGet(mem, i + r) \div Pow2(7 - c)) % 2 = 1

SpriteCovers(mem, i, vx, vy, n, x, y) ==
    \E r \in 0..(n - 1), c \in 0..7 :
        /\ (vx + c) % 64 = x
        /\ (vy + r) % 32 = y
        /\ SpriteBit(mem, i, r, c)

\* C8: Dxyn XORs the n-row sprite at memory[I] onto the framebuffer at
\* (Vx mod 64, Vy mod 32), most-significant bit leftmost, wrapping at the edges;
\* the other pixels are unchanged and nothing goes out of range.
C8_DrwXorsSprite ==
    [][(last'.call = "cycle" /\ IsDrw(last'.opcode))
        => /\ panic' = "none"
           /\ \A y \in 0..(FbRows - 1), x \in 0..(FbBits - 1) :
                FramebufferGet(framebuffer', x, y)
                    <=> (FramebufferGet(framebuffer, x, y)
                            # SpriteCovers(memory, index_register,
                                           registers[Vx(last'.opcode)],
                                           registers[Vy(last'.opcode)],
                                           last'.opcode % 16, x, y))]_vars

\* C9: after a DRW that completes, VF = 1 if some sprite bit that is 1 was drawn
\* onto a pixel that was on before the instruction, and VF = 0 otherwise.
C9_DrwFlagIsCollision ==
    [][(last'.call = "cycle" /\ IsDrw(last'.opcode) /\ panic' = "none")
        => registers'[FlagRegister] =
            BoolToInt(\E y \in 0..(FbRows - 1), x \in 0..(FbBits - 1) :
                        /\ FramebufferGet(framebuffer, x, y)
                        /\ SpriteCovers(memory, index_register,
                                        registers[Vx(last'.opcode)],
                                        registers[Vy(last'.opcode)],
                                        last'.opcode % 16, x, y))]_vars

\* C10: a cycle that executes Fx0A while no key is pressed completes and leaves
\* the program counter and every other field of the VM as they were.
C10_KeyWaitStutters ==
    [][(last'.call = "cycle" /\ IsKeyWait(last'.opcode) /\ PressedKeys(Self) = {})
        => /\ panic' = "none"
           /\ program_counter' = program_counter
           /\ UNCHANGED <<memory, stack, stack_pointer, registers, index_register,
                          framebuffer, delay_timer, sound_timer, keyboard>>]_vars

\* C10: the VM has just executed Fx0A with no key pressed and is about to fetch
\* it again.
C10_Witness ==
    /\ last.call = "cycle"
    /\ IsKeyWait(last.opcode)
    /\ PressedKeys(Self) = {}
    /\ panic = "none"
    /\ read_instruction(Self) = last.opcode

\* The VM is about to fetch Fx0A with no key pressed.
SpinningOnKeyWait ==
    /\ host = "run"
    /\ panic = "none"
    /\ ~ReadPanics(Self)
    /\ IsKeyWait(read_instruction(Self))
    /\ PressedKeys(Self) = {}

\* C11: while the VM spins on Fx0A, the host's key(k, true) is accepted for
\* every k in 0..15, and a cycle that executes Fx0A while some key is pressed
\* sets Vx to the lowest pressed key and leaves the program counter on the next
\* instruction.
C11_KeyWaitCompletes ==
    [][/\ (SpinningOnKeyWait /\ last'.call = "key" /\ last'.key \in 0..15
                /\ last'.state)
            => (panic' = "none" /\ keyboard'[last'.key])
       /\ (last'.call = "cycle" /\ IsKeyWait(last'.opcode) /\ PressedKeys(Self) # {})
            => /\ panic' = "none"
               /\ registers'[Vx(last'.opcode)] = FirstPressed(Self)
               /\ \A k \in PressedKeys(Self) : registers'[Vx(last'.opcode)] <= k
               /\ program_counter' = program_counter + 2]_vars

\* The opcode 8xyn
IsAlu(opcode, n) == opcode \div 4096 = 8 /\ opcode % 16 = n

\* C12: 8xy4 with a = Vx and b = Vy before it, for every x and y in 0..15:
\* afterwards VF = 1 if a + b >= 256 and 0 otherwise, and Vx = (a + b) mod 256
\* when x is not 0xF.
C12_AddRegCarry ==
    [][(last'.call = "cycle" /\ IsAlu(last'.opcode, 4))
        => LET x == Vx(last'.opcode)
               sum == registers[x] + registers[Vy(last'.opcode)]
           IN  /\ panic' = "none"
               /\ registers'[FlagRegister] = BoolToInt(sum >= 256)
               /\ x # 15 => registers'[x] = sum % 256]_vars

\* C13: 8xy5 with a = Vx and b = Vy before it (x and y not 0xF), also when
\* a < b: the cycle completes, VF = 1 if a > b and 0 otherwise, and
\* Vx = (a - b) mod 256.
C13_SubWraps ==
    [][(last'.call = "cycle" /\ IsAlu(last'.opcode, 5)
            /\ Vx(last'.opcode) # 15 /\ Vy(last'.opcode) # 15)
        => LET a == registers[Vx(last'.opcode)]
               b == registers[Vy(last'.opcode)]
           IN  /\ panic' = "none"
               /\ registers'[FlagRegister] = BoolToInt(a > b)
               /\ registers'[Vx(last'.opcode)] = (a - b) % 256]_vars

\* The opcode FxNN
IsF(opcode, nn) == opcode \div 4096 = 15 /\ opcode % 256 = nn

\* C14: Fx55 writes memory[I + i] = Vi for every i in 0..x, Vx included, and
\* Fx65 sets Vi = memory[I + i] for every i in 0..x.
C14_StoreLoadInclusive ==
    [][/\ (last'.call = "cycle" /\ IsF(last'.opcode, \H55))
            => /\ panic' = "none"
               /\ \A i \in 0..Vx(last'.opcode) :
                    MemGet(memory', index_register + i) = registers[i]
       /\ (last'.call = "cycle" /\ IsF(last'.opcode, \H65))
            => /\ panic' = "none"
               /\ \A i \in 0..Vx(last'.opcode) :
                    registers'[i] = MemGet(memory, index_register + i)]_vars

\* The opcodes of the specification's opcode list: 00E0, 00EE, 1nnn .. 4xkk,
\* 5xy0, 6xkk, 7xkk, 8xy0 .. 8xy8, 9xy0, Annn .. Dxyn, Ex9E, ExA1 and Fx07,
\* Fx0A, Fx15, Fx18, Fx1E, Fx29, Fx33, Fx55, Fx65.
ListedOpcode(opcode) ==
    LET p1 == opcode \div 4096
    IN  \/ opcode \in {\H00E0, \H00EE}
        \/ p1 \in {1, 2, 3, 4, 6, 7, 10, 11, 12, 13}
        \/ (p1 \in {5, 9} /\ opcode % 16 = 0)
        \/ (p1 = 8 /\ opcode % 16 <= 8)
        \/ (p1 = 14 /\ opcode % 256 \in {\H9E, \HA1})
        \/ (p1 = 15 /\ opcode % 256 \in
                {\H07, \H0A, \H15, \H18, \H1E, \H29, \H33, \H55, \H65})

\* C15: a cycle on a 16-bit pattern that is not in the opcode list completes,
\* advances the program counter by exactly 2 and changes nothing else.
C15_UnlistedIsNoOp ==
    [][(last'.call = "cycle" /\ ~ReadPanics(Self) /\ ~ListedOpcode(last'.opcode))
        => /\ panic' = "none"
           /\ program_counter' = program_counter + 2
           /\ UNCHANGED <<memory, stack, stack_pointer, registers, index_register,
                          framebuffer, delay_timer, sound_timer, keyboard>>]_vars

\* C16: 8xy2 sets Vx to (Vx AND Vy), leaves the other registers (VF among
\* them, when x is not 0xF) unchanged and advances the program counter by 2.
C16_Alu2IsAnd ==
    [][(last'.call = "cycle" /\ IsAlu(last'.opcode, 2))
        => /\ panic' = "none"
           /\ registers' = [registers EXCEPT ![Vx(last'.opcode)] =
                    BitAnd(registers[Vx(last'.opcode)], registers[Vy(last'.opcode)])]
           /\ program_counter' = program_counter + 2]_vars

\* The next cycle executes RND Vx, byte
AboutToRnd ==
    /\ host = "run"
    /\ panic = "none"
    /\ ~ReadPanics(Self)
    /\ read_instruction(Self) \div 4096 = 12

\* C17: when the next instruction is Cxkk, the values Vx can hold after the
\* cycle are exactly the (b AND kk) for the bytes b in 0..255 (with kk = 0xFF
\* the result Vx = 0xFF is among them).
C17_RndFullByteRange ==
    AboutToRnd =>
        LET opcode == read_instruction(Self)
            results == {cycle(Self, overflow_checks, rnd).registers[Vx(opcode)] :
                            rnd \in RandomValues(opcode)}
        IN  results = {BitAnd(b, Byte(opcode)) : b \in 0..(U8 - 1)}

\* C18: a cycle changes the delay timer only by Fx15 and the sound timer only
\* by Fx18, each of which sets its timer to Vx; Fx07 sets Vx to the delay
\* timer and leaves the timer as it was.
C18_CycleNeverTimes ==
    [][last'.call = "cycle" =>
        LET opcode == last'.opcode
            x == Vx(opcode)
        IN  /\ ~IsF(opcode, \H15) => delay_timer' = delay_timer
            /\ ~IsF(opcode, \H18) => sound_timer' = sound_timer
            /\ IsF(opcode, \H15) => (panic' = "none" /\ delay_timer' = registers[x])
            /\ IsF(opcode, \H18) => (panic' = "none" /\ sound_timer' = registers[x])
            /\ IsF(opcode, \H07) =>
                (panic' = "none" /\ registers'[x] = delay_timer)]_vars

\* Fx07 has just read a delay timer that Fx15 set to 7, with the sound timer
\* set to 9 by Fx18
C18_Witness ==
    /\ last.call = "cycle"
    /\ IsF(last.opcode, \H07)
    /\ panic = "none"
    /\ registers[Vx(last.opcode)] = 7
    /\ delay_timer = 7
    /\ sound_timer = 9

\* C19: 7xkk completes for every Vx and kk with Vx = (Vx + kk) mod 256, and
\* leaves VF unchanged when x is not 0xF.
C19_AddByteWraps ==
    [][(last'.call = "cycle" /\ last'.opcode \div 4096 = 7) =>
        LET x == Vx(last'.opcode)
        IN  /\ panic' = "none"
            /\ registers'[x] = (registers[x] + Byte(last'.opcode)) % U8
            /\ x # FlagRegister => registers'[FlagRegister] = registers[FlagRegister]]_vars

\* C20: a cycle modifies memory only for Fx33 and Fx55, the framebuffer only
\* for 00E0 and Dxyn, the stack and the stack pointer only for 2nnn and 00EE,
\* and the keyboard for no opcode.
C20_WriteFootprint ==
    [][last'.call = "cycle" =>
        LET opcode == last'.opcode
        IN  /\ ~(IsF(opcode, \H33) \/ IsF(opcode, \H55)) => memory' = memory
            /\ ~(opcode = \H00E0 \/ IsDrw(opcode)) => framebuffer' = framebuffer
            /\ ~(IsCall(opcode) \/ IsRet(opcode)) =>
                (stack' = stack /\ stack_pointer' = stack_pointer)
            /\ keyboard' = keyboard]_vars

\* Fx65 has just loaded V0 from a memory that Fx55 wrote, with a key held
C20_Witness ==
    /\ last.call = "cycle"
    /\ IsF(last.opcode, \H65)
    /\ panic = "none"
    /\ MemGet(memory, index_register) = 17
    /\ registers[0] = 17
    /\ PressedKeys(Self) # {}

====
